---------------------------- MODULE Spec2Model ----------------------------
(***************************************************************************)
(* FitFinder resume ranker: backend/enhanced_resume_ranker_connect.py.     *)
(*                                                                         *)
(* Texts are sequences of tokens (words, numbers, taxonomy phrases). The   *)
(* regular expressions of the extractors are modelled as token-level       *)
(* matchers with the scanning discipline of re.findall (leftmost,          *)
(* non-overlapping). Python floats are modelled as exact rationals, so     *)
(* IEEE rounding is outside the model. The TF-IDF cosine similarity is a   *)
(* nondeterministic value of the grid 0, 1/SimGrid, .., 1.                 *)
(***************************************************************************)
EXTENDS Integers, Sequences, FiniteSets, TLC

VARIABLES
    config,             \* self.config of the ranker
    universal_skills,   \* self.universal_skills, the taxonomy
    pc,                 \* position inside rank_resumes
    job_description,    \* argument of rank_resumes
    resumes_data,       \* argument of rank_resumes: the batch
    job_analysis,       \* local of rank_resumes
    processed_resumes,  \* local of rank_resumes
    text_similarities,  \* local of rank_resumes
    weights,            \* local of rank_resumes
    results,            \* local of rank_resumes
    sorted_results,     \* value returned by rank_resumes
    raised,             \* rank_resumes left by an exception
    probe,              \* arguments of the direct extract_dynamic_skills calls
    probe_first,        \* what the first direct call returned
    probe_last,         \* what the latest direct call returned
    in_text,            \* argument of a direct extract_experience_years call
    out_years,          \* its return value
    caller,             \* who called rank_resumes: "direct" or "api"
    idx,                \* index of the running for loop of rank_resumes
    api_response,       \* what analyze_job_and_rank returned
    sim_call,           \* a direct call of calculate_text_similarity
    edu_call,           \* a direct call of extract_education
    rec_call,           \* a direct call of generate_recommendations
    init_call,          \* a construction UniversalResumeRanker(config)
    match_call,         \* a direct call of calculate_advanced_skill_match
    vectorizer,         \* self.vectorizer of the ranker of flask_server
    requests,           \* the requests flask_server is serving, by thread
    files,              \* the export files in the working directory
    download,           \* the latest answer of GET /api/download/<file_type>
    fitted              \* the corpora the vectorizer was fitted on in this run

vars == <<config, universal_skills, pc, job_description, resumes_data,
          job_analysis, processed_resumes, text_similarities, weights,
          results, sorted_results, raised, probe, probe_first, probe_last,
          in_text, out_years, caller, idx, api_response, sim_call, edu_call,
          rec_call, init_call, match_call, vectorizer, requests, files, download, fitted>>

----------------------------------------------------------------------------
(* Bounds of the model *)

MaxMentions == 3    \* phrases per text given to extract_experience_years
MaxBatch == 2       \* resumes per ranking run
SimGrid == 2        \* similarities are k/SimGrid, k in 0..SimGrid
MaxYears == 9       \* years stated by the texts of the scoring specification
MaxThreads == 2     \* requests flask_server serves at a time
MaxKeywords == 4    \* education keywords per text given to extract_education
MaxSectors == 2     \* sectors of a gap detail given to generate_recommendations
MaxPhrases == 3     \* phrases per job description given to the analysis

----------------------------------------------------------------------------
(* Exact rationals standing for Python floats *)

RECURSIVE GCD(_, _)
GCD(a, b) == IF b = 0 THEN a ELSE GCD(b, a % b)

Abs(x) == IF x < 0 THEN -x ELSE x

Rat(n, d) ==
    LET s == IF d < 0 THEN -1 ELSE 1
        g == GCD(Abs(n), Abs(d))
    IN  [n |-> (s * n) \div g, d |-> (s * d) \div g]

Zero == Rat(0, 1)
One == Rat(1, 1)

RAdd(a, b) == Rat(a.n * b.d + b.n * a.d, a.d * b.d)
RSub(a, b) == Rat(a.n * b.d - b.n * a.d, a.d * b.d)
RMul(a, b) == Rat(a.n * b.n, a.d * b.d)
RDiv(a, b) == Rat(a.n * b.d, a.d * b.n)
RLe(a, b) == a.n * b.d <= b.n * a.d
RLt(a, b) == a.n * b.d < b.n * a.d
RMin(a, b) == IF RLe(a, b) THEN a ELSE b
Max(a, b) == IF a >= b THEN a ELSE b
Min(a, b) == IF a <= b THEN a ELSE b

RECURSIVE SumSet(_)
SumSet(S) == IF S = {} THEN 0
             ELSE LET x == CHOOSE y \in S : TRUE IN x + SumSet(S \ {x})

Range(s) == {s[i] : i \in 1..Len(s)}

----------------------------------------------------------------------------
(* Tokens of a text *)

W(s) == [w |-> s, n |-> 0]      \* a word or a taxonomy phrase
Num(k) == [w |-> "#", n |-> k]  \* a run of digits

IsNum(t) == t.w = "#"

----------------------------------------------------------------------------
(* extract_experience_years *)

YearCap == 50
CurrentYear == 2025

\* One element of a pattern: the words it accepts ("#" a number, "#4" a
\* four-digit number, "*" any token), whether it may be absent, whether it
\* is the captured group, whether it is only looked at (the token after
\* "in\s+" is not consumed).
El(ws, opt, cap, look) == [ws |-> ws, opt |-> opt, cap |-> cap, look |-> look]

NUM == El({"#"}, FALSE, TRUE, FALSE)
NUM4 == El({"#4"}, FALSE, TRUE, FALSE)
PLUS == El({"+"}, TRUE, FALSE, FALSE)
YEARS == El({"year", "years"}, FALSE, FALSE, FALSE)
YRS == El({"yr", "yrs"}, FALSE, FALSE, FALSE)
OF == El({"of"}, TRUE, FALSE, FALSE)
EXPERIENCE == El({"experience", "exp"}, FALSE, FALSE, FALSE)
Lit(w) == El({w}, FALSE, FALSE, FALSE)
SPACE == El({"*"}, FALSE, FALSE, TRUE)

\* Each pattern is the sequence of its alternatives.
patterns == <<
    << <<NUM, PLUS, YEARS, OF, EXPERIENCE>> >>,
    << <<NUM, PLUS, YEARS, Lit("in"), SPACE>> >>,
    << <<EXPERIENCE, OF, NUM, PLUS, YEARS>> >>,
    << <<NUM, PLUS, YRS, OF, EXPERIENCE>> >>,
    << <<NUM, PLUS, YEARS, Lit("working")>>,
       <<NUM, PLUS, YEARS, Lit("in"), Lit("field")>> >>,
    << <<Lit("("), NUM, YEARS, Lit(")")>> >>,
    << <<NUM, YEARS>> >>,
    << <<NUM4, Lit("-"), El({"present", "current"}, FALSE, FALSE, FALSE)>> >>
>>

PresentPattern == 8     \* pattern.endswith('present|current)')

Accepts(e, t) ==
    \/ "*" \in e.ws
    \/ "#" \in e.ws /\ IsNum(t)
    \/ "#4" \in e.ws /\ IsNum(t) /\ t.n >= 1000
    \/ ~IsNum(t) /\ t.w \in e.ws

\* int(match): \d{4} takes the last four digits of a longer run
Captured(e, t) == IF "#4" \in e.ws THEN t.n % 10000 ELSE t.n

NoMatch == [ok |-> FALSE, end |-> 0, val |-> 0]

RECURSIVE MatchFrom(_, _, _, _, _)
MatchFrom(alt, k, text, i, val) ==
    IF k > Len(alt) THEN [ok |-> TRUE, end |-> i, val |-> val]
    ELSE LET e == alt[k]
             take == IF i <= Len(text) /\ Accepts(e, text[i])
                     THEN MatchFrom(alt, k + 1, text,
                                    IF e.look THEN i ELSE i + 1,
                                    IF e.cap THEN Captured(e, text[i]) ELSE val)
                     ELSE NoMatch
         IN  IF take.ok THEN take
             ELSE IF e.opt THEN MatchFrom(alt, k + 1, text, i, val)
             ELSE NoMatch

RECURSIVE MatchAt(_, _, _, _)
MatchAt(pattern, a, text, i) ==
    IF a > Len(pattern) THEN NoMatch
    ELSE LET m == MatchFrom(pattern[a], 1, text, i, 0)
         IN  IF m.ok THEN m ELSE MatchAt(pattern, a + 1, text, i)

\* re.findall(pattern, text_lower): the captured group of every match
RECURSIVE findall(_, _, _)
findall(pattern, text, i) ==
    IF i > Len(text) THEN <<>>
    ELSE LET m == MatchAt(pattern, 1, text, i)
         IN  IF m.ok THEN <<m.val>> \o findall(pattern, text, m.end)
             ELSE findall(pattern, text, i + 1)

\* the list years after the loop over the first p patterns
RECURSIVE matched_years(_, _)
matched_years(text, p) ==
    IF p = 0 THEN <<>>
    ELSE LET ms == findall(patterns[p], text, 1)
             vs == [j \in 1..Len(ms) |->
                      IF p = PresentPattern THEN CurrentYear - ms[j] ELSE ms[j]]
         IN  matched_years(text, p - 1) \o vs

RECURSIVE SumSeq(_)
SumSeq(q) == IF q = <<>> THEN 0 ELSE Head(q) + SumSeq(Tail(q))

\* a slip that sums the list of matches, so that a value matched twice
\* counts twice
extract_experience_years_all(text) ==
    LET years == matched_years(text, Len(patterns))
    IN  IF years # <<>> THEN Min(SumSeq(years), YearCap) ELSE 0

extract_experience_years(text) ==
    LET years == matched_years(text, Len(patterns))
    IN  IF years # <<>>
        THEN LET total_years == SumSet(Range(years))
             IN  Min(total_years, YearCap)
        ELSE 0

----------------------------------------------------------------------------
(* Texts given to extract_experience_years on its own: up to MaxMentions   *)
(* of these phrases, one after the other                                   *)

Mentions == {
    <<Num(5), W("years"), W("of"), W("experience")>>,
    <<Num(5), W("years"), W("in"), W("management")>>,
    <<Num(3), W("years"), W("in"), W("management")>>,
    <<W("experience"), W("of"), Num(4), W("years")>>,
    <<Num(7), W("+"), W("yrs"), W("of"), W("exp")>>,
    <<W("("), Num(7), W("years"), W(")")>>,
    <<Num(3), W("+"), W("years"), W("working")>>,
    <<Num(45), W("years")>>,
    <<Num(2018), W("-"), W("present")>>,
    <<Num(2030), W("-"), W("present")>>,
    <<Num(1960), W("-"), W("current")>>,
    <<W("and")>>
}

RECURSIVE TextsOf(_)
TextsOf(k) ==
    IF k = 0 THEN {<<>>}
    ELSE LET shorter == TextsOf(k - 1)
         IN  shorter \cup {t \o m : t \in shorter, m \in Mentions}

ExperienceTexts == TextsOf(MaxMentions)

----------------------------------------------------------------------------
(* _initialize_skills_database: the sectors of the taxonomy whose phrases  *)
(* occur in the texts of the model, in the order of the source. A Python   *)
(* dict is a sequence of entries, in insertion order.                      *)

SkillsDatabase == <<
    [category |-> "BUSINESS-DEVELOPMENT",
     skills |-> <<"sales", "market research", "strategic planning",
                  "lead generation", "client acquisition",
                  "partnership development", "negotiation", "crm",
                  "business intelligence">>],
    [category |-> "DIGITAL-MEDIA",
     skills |-> <<"social media management", "content creation", "seo", "sem",
                  "video editing", "photography", "copywriting", "analytics",
                  "influencer marketing">>],
    [category |-> "MARKETING",
     skills |-> <<"digital marketing", "content marketing",
                  "social media marketing", "seo", "sem", "ppc",
                  "google analytics", "brand management", "market research",
                  "campaign management", "copywriting", "a/b testing",
                  "conversion optimization">>],
    [category |-> "PHARMACEUTICAL",
     skills |-> <<"drug development", "clinical trials", "regulatory affairs",
                  "pharmacology", "quality assurance", "sales", "marketing",
                  "research and development", "gmp">>],
    [category |-> "PUBLIC-RELATIONS",
     skills |-> <<"media relations", "press releases", "event planning",
                  "crisis management", "social media", "content creation",
                  "brand management", "stakeholder engagement",
                  "reputation management">>],
    [category |-> "SOFT-SKILLS",
     skills |-> <<"communication", "teamwork", "problem-solving",
                  "time management", "adaptability", "creativity", "work ethic",
                  "interpersonal skills", "leadership", "attention to detail",
                  "critical thinking">>]
>>

\* the phrases of the taxonomy that are proper substrings of another one
Substrings == {
    <<"content marketing", "marketing">>,
    <<"digital marketing", "marketing">>,
    <<"influencer marketing", "marketing">>,
    <<"social media marketing", "marketing">>,
    <<"social media marketing", "social media">>,
    <<"social media management", "social media">>,
    <<"google analytics", "analytics">>
}

\* skill in text_lower
Contained(skill, text) ==
    \E i \in 1..Len(text) :
        /\ ~IsNum(text[i])
        /\ (text[i].w = skill \/ <<text[i].w, skill>> \in Substrings)

\* re.search(rf'\b{re.escape(skill)}\b', text_lower)
WordMatch(skill, text) ==
    \E i \in 1..Len(text) : ~IsNum(text[i]) /\ text[i].w = skill

Categories(d) == {d[i].category : i \in 1..Len(d)}

Get(d, c) == (CHOOSE e \in Range(d) : e.category = c).skills

RECURSIVE SumLen(_)
SumLen(d) == IF d = <<>> THEN 0 ELSE Len(Head(d).skills) + SumLen(Tail(d))

\* reference_skills None and {} are both the empty sequence: both are falsy
extract_dynamic_skills_stale(text, reference_skills) ==
    LET skills_to_search == IF reference_skills # <<>> THEN reference_skills
                            ELSE universal_skills
        found == [k \in 1..Len(skills_to_search) |->
                    [category |-> skills_to_search[k].category,
                     skills |-> SelectSeq(skills_to_search[k].skills,
                        LAMBDA skill : Contained(skill, text)
                                       \/ WordMatch(skill, text))]]
        fresh == SelectSeq(found, LAMBDA e : e.skills # <<>>)
    IN  IF text = <<>> THEN <<>>
        ELSE IF probe_last.called THEN probe_last.value \o fresh ELSE fresh

\* the extraction that keeps the sectors nothing was found of
extract_dynamic_skills_every(text, reference_skills) ==
    IF text = <<>> THEN <<>>
    ELSE LET skills_to_search == IF reference_skills # <<>> THEN reference_skills
                                 ELSE universal_skills
         IN  [k \in 1..Len(skills_to_search) |->
                    [category |-> skills_to_search[k].category,
                     skills |-> SelectSeq(skills_to_search[k].skills,
                        LAMBDA skill : Contained(skill, text)
                                       \/ WordMatch(skill, text))]]

extract_dynamic_skills(text, reference_skills) ==
    IF text = <<>> THEN <<>>
    ELSE LET skills_to_search == IF reference_skills # <<>> THEN reference_skills
                                 ELSE universal_skills
             category_skills == [k \in 1..Len(skills_to_search) |->
                    [category |-> skills_to_search[k].category,
                     skills |-> SelectSeq(skills_to_search[k].skills,
                        LAMBDA skill : Contained(skill, text)
                                       \/ WordMatch(skill, text))]]
         IN  SelectSeq(category_skills, LAMBDA e : e.skills # <<>>)

----------------------------------------------------------------------------
(* extract_education *)

education_keywords == <<
    [level |-> "phd", keywords |-> {"phd", "ph.d", "doctorate", "doctoral"}],
    [level |-> "masters",
     keywords |-> {"masters", "master", "mba", "ms", "ma", "msc", "mtech", "meng"}],
    [level |-> "bachelors",
     keywords |-> {"bachelors", "bachelor", "bs", "ba", "bsc", "btech", "beng",
                   "degree"}],
    [level |-> "diploma", keywords |-> {"diploma", "certificate", "associate"}]
>>

education_scores(level) ==
    CASE level = "phd" -> 5
      [] level = "masters" -> 4
      [] level = "bachelors" -> 3
      [] level = "diploma" -> 2
      [] OTHER -> 1

MaxOf(S) == CHOOSE x \in S : \A y \in S : y <= x

\* the lowest tier found, where the code takes the highest
extract_education_lowest(text) ==
    LET found_education ==
            {e.level : e \in {t \in Range(education_keywords) :
                \E i \in 1..Len(text) : ~IsNum(text[i]) /\ text[i].w \in t.keywords}}
    IN  IF found_education # {}
        THEN CHOOSE x \in {education_scores(edu) : edu \in found_education} :
                \A y \in {education_scores(edu) : edu \in found_education} : x <= y
        ELSE 1

extract_education(text) ==
    LET found_education ==
            {e.level : e \in {t \in Range(education_keywords) :
                \E i \in 1..Len(text) : ~IsNum(text[i]) /\ text[i].w \in t.keywords}}
    IN  IF found_education # {}
        THEN MaxOf({education_scores(edu) : edu \in found_education})
        ELSE 1

----------------------------------------------------------------------------
(* analyze_job_description *)

SectorScore(e, text) ==
    Cardinality({k \in 1..Len(e.skills) : Contained(e.skills[k], text)})

\* max(sector_scores.items(), key=...) over the sectors of score > 0: the
\* first entry, in the order of the taxonomy, with the highest score
RECURSIVE MaxSector(_, _, _, _)
MaxSector(text, k, best, sector) ==
    IF k > Len(universal_skills) THEN sector
    ELSE LET e == universal_skills[k]
             score == IF e.category = "SOFT-SKILLS" THEN 0
                      ELSE SectorScore(e, text)
         IN  IF score > best
             THEN MaxSector(text, k + 1, score, e.category)
             ELSE MaxSector(text, k + 1, best, sector)

\* a maximum that keeps the last of the sectors of the highest score
RECURSIVE MaxSector_last(_, _, _, _)
MaxSector_last(text, k, best, sector) ==
    IF k > Len(universal_skills) THEN sector
    ELSE LET e == universal_skills[k]
             score == IF e.category = "SOFT-SKILLS" THEN 0
                      ELSE SectorScore(e, text)
         IN  IF score >= best /\ score > 0
             THEN MaxSector_last(text, k + 1, score, e.category)
             ELSE MaxSector_last(text, k + 1, best, sector)

_detect_sector_last(text) == MaxSector_last(text, 1, 0, "GENERAL")

_detect_sector(text) == MaxSector(text, 1, 0, "GENERAL")

_calculate_complexity_score(skills, experience, education) ==
    LET skill_count == SumLen(skills)
        complexity == RDiv(RAdd(RAdd(RMul(Rat(skill_count, 1), Rat(4, 10)),
                                     RMul(Rat(experience, 1), Rat(4, 10))),
                                RMul(Rat(education, 1), Rat(2, 10))),
                           Rat(20, 1))
    IN  RMin(complexity, One)

analyze_job_description(text) ==
    LET skills == extract_dynamic_skills(text, <<>>)
        experience == extract_experience_years(text)
        education == extract_education(text)
    IN  [skills_required |-> skills,
         experience_required |-> experience,
         education_required |-> education,
         sector_detected |-> _detect_sector(text),
         complexity_score |-> _calculate_complexity_score(skills, experience, education)]

----------------------------------------------------------------------------
(* parse_resume *)

\* a parser that takes None for the empty text
ParseFails_never(resume) == FALSE

\* resume.text None: extract_experience_years raises on None.lower()
ParseFails(resume) == resume.text_is_none

\* a parse that searches the whole taxonomy whatever the job asks for
parse_resume_unrestricted(resume, job_skills) ==
    [filename |-> resume.filename,
     raw_text |-> resume.text,
     skills |-> extract_dynamic_skills(resume.text, <<>>),
     experience_years |-> extract_experience_years(resume.text),
     education_score |-> extract_education(resume.text)]

parse_resume(resume, job_skills) ==
    [filename |-> resume.filename,
     raw_text |-> resume.text,
     skills |-> extract_dynamic_skills(resume.text, job_skills),
     experience_years |-> extract_experience_years(resume.text),
     education_score |-> extract_education(resume.text)]

----------------------------------------------------------------------------
(* calculate_text_similarity. fit_raises: fit_transform or                 *)
(* cosine_similarity raises, as fit_transform does on a corpus that leaves *)
(* no term. cosine: the similarities computed otherwise, one per text.     *)

\* the similarities without the except clause
similarities_raising(resume_texts, fit_raises, cosine) ==
    IF resume_texts = <<>> THEN [value |-> <<>>, raised |-> FALSE]
    ELSE IF fit_raises THEN [value |-> <<>>, raised |-> TRUE]
    ELSE [value |-> cosine, raised |-> FALSE]

\* a corpus that is fitted before the last text is there
all_texts_early(job, resume_texts) ==
    <<job>> \o SubSeq(resume_texts, 1, Len(resume_texts) - 1)

\* all_texts = [job_description] + resume_texts
all_texts(job, resume_texts) == <<job>> \o resume_texts

similarities(resume_texts, fit_raises, cosine) ==
    IF resume_texts = <<>> THEN [value |-> <<>>, raised |-> FALSE]
    ELSE IF fit_raises
         THEN [value |-> [k \in 1..Len(resume_texts) |-> Zero],
               raised |-> FALSE]
    ELSE [value |-> cosine, raised |-> FALSE]

----------------------------------------------------------------------------
(* calculate_advanced_skill_match. list(set(..)) is kept in the order of   *)
(* the job's list. raises: the call ends by ZeroDivisionError.             *)

\* the match without the early return for a job that asks for no skill
calculate_advanced_skill_match_unguarded(job_skills, resume_skills) ==
    LET total_job_skills == SumLen(job_skills)
        matched_skills ==
            SumLen([k \in 1..Len(job_skills) |->
                [skills |-> IF job_skills[k].category \in Categories(resume_skills)
                            THEN SelectSeq(job_skills[k].skills,
                                    LAMBDA x : x \in Range(Get(resume_skills,
                                                    job_skills[k].category)))
                            ELSE <<>>]])
    IN  IF total_job_skills = 0
        THEN [score |-> Zero, breakdown |-> <<>>, raises |-> TRUE]
        ELSE [score |-> Rat(matched_skills, total_job_skills),
              breakdown |-> <<>>, raises |-> FALSE]

\* the match that names no missing skill in a category the resume lacks
calculate_advanced_skill_match_absent(job_skills, resume_skills) ==
    LET InResume(c, skill) ==
            c \in Categories(resume_skills) /\ skill \in Range(Get(resume_skills, c))
        skill_breakdown == [k \in 1..Len(job_skills) |->
            LET c == job_skills[k].category
                skills == job_skills[k].skills
                matched == SelectSeq(skills, LAMBDA x : InResume(c, x))
            IN  [category |-> c,
                 required |-> Len(skills),
                 matched |-> Len(matched),
                 matched_skills |-> matched,
                 missing_skills |->
                    IF c \in Categories(resume_skills)
                    THEN SelectSeq(skills, LAMBDA x : ~InResume(c, x))
                    ELSE <<>>]]
        matched_skills ==
            SumLen([k \in 1..Len(job_skills) |->
                      [skills |-> skill_breakdown[k].matched_skills]])
    IN  IF SumLen(job_skills) = 0
        THEN [score |-> Zero, breakdown |-> <<>>, raises |-> FALSE]
        ELSE [score |-> Rat(matched_skills, SumLen(job_skills)),
              breakdown |-> skill_breakdown, raises |-> FALSE]

calculate_advanced_skill_match(job_skills, resume_skills) ==
    LET total_job_skills == SumLen(job_skills)
        InResume(c, skill) ==
            c \in Categories(resume_skills) /\ skill \in Range(Get(resume_skills, c))
        skill_breakdown == [k \in 1..Len(job_skills) |->
            LET c == job_skills[k].category
                skills == job_skills[k].skills
                matched == SelectSeq(skills, LAMBDA x : InResume(c, x))
            IN  [category |-> c,
                 required |-> Len(skills),
                 matched |-> Len(matched),
                 matched_skills |-> matched,
                 missing_skills |-> SelectSeq(skills, LAMBDA x : ~InResume(c, x))]]
        matched_skills ==
            SumLen([k \in 1..Len(job_skills) |->
                      [skills |-> skill_breakdown[k].matched_skills]])
    IN  IF total_job_skills = 0
        THEN [score |-> Zero, breakdown |-> <<>>, raises |-> FALSE]
        ELSE [score |-> Rat(matched_skills, total_job_skills),
              breakdown |-> skill_breakdown, raises |-> FALSE]

----------------------------------------------------------------------------
(* generate_recommendations: the statements, by what they name             *)

TopPerCategory == 3     \* breakdown['missing_skills'][:3]
TopOverall == 5         \* missing_skills[:5]

Take(q, n) == SubSeq(q, 1, Min(n, Len(q)))

\* missing_skills after the loop over skill_breakdown.items()
RECURSIVE missing_skills(_)
missing_skills(skill_breakdown) ==
    IF skill_breakdown = <<>> THEN <<>>
    ELSE Take(Head(skill_breakdown).missing_skills, TopPerCategory)
            \o missing_skills(Tail(skill_breakdown))

Statement(kind, skills, years) == [kind |-> kind, skills |-> skills, years |-> years]

\* the recommendations with a skills statement that names every phrase
generate_recommendations_uncut(skill_breakdown, experience_gap, education_gap) ==
    LET missing == missing_skills(skill_breakdown)
    IN  (IF missing # <<>> THEN <<Statement("skills", missing, 0)>> ELSE <<>>)
        \o (IF experience_gap > 0
            THEN <<Statement("experience", <<>>, experience_gap)>> ELSE <<>>)
        \o (IF education_gap > 0
            THEN <<Statement("education", <<>>, 0)>> ELSE <<>>)

generate_recommendations(skill_breakdown, experience_gap, education_gap) ==
    LET missing == missing_skills(skill_breakdown)
    IN  (IF missing # <<>>
         THEN <<Statement("skills", Take(missing, TopOverall), 0)>> ELSE <<>>)
        \o (IF experience_gap > 0
            THEN <<Statement("experience", <<>>, experience_gap)>> ELSE <<>>)
        \o (IF education_gap > 0
            THEN <<Statement("education", <<>>, 0)>> ELSE <<>>)

----------------------------------------------------------------------------
(* _calculate_adaptive_weights *)

SkillHeavy == 15        \* total_skills > 15
ExperienceHeavy == 7    \* job_exp_years > 7

\* shifts that start at the thresholds, where the code's start above them
ShiftedWeights_inclusive(job_skills, job_exp_years) ==
    LET base == [text |-> config.text_weight,
                 skills |-> config.skill_weight,
                 experience |-> config.experience_weight,
                 education |-> config.education_weight]
        total_skills == SumLen(job_skills)
        w1 == IF total_skills >= SkillHeavy
              THEN [base EXCEPT !.skills = RAdd(@, Rat(1, 10)),
                                !.text = RSub(@, Rat(5, 100)),
                                !.experience = RSub(@, Rat(5, 100))]
              ELSE base
    IN  IF job_exp_years >= ExperienceHeavy
        THEN [w1 EXCEPT !.experience = RAdd(@, Rat(1, 10)),
                        !.education = RSub(@, Rat(5, 100)),
                        !.text = RSub(@, Rat(5, 100))]
        ELSE w1

ShiftedWeights(job_skills, job_exp_years) ==
    LET base == [text |-> config.text_weight,
                 skills |-> config.skill_weight,
                 experience |-> config.experience_weight,
                 education |-> config.education_weight]
        total_skills == SumLen(job_skills)
        w1 == IF total_skills > SkillHeavy
              THEN [base EXCEPT !.skills = RAdd(@, Rat(1, 10)),
                                !.text = RSub(@, Rat(5, 100)),
                                !.experience = RSub(@, Rat(5, 100))]
              ELSE base
    IN  IF job_exp_years > ExperienceHeavy
        THEN [w1 EXCEPT !.experience = RAdd(@, Rat(1, 10)),
                        !.education = RSub(@, Rat(5, 100)),
                        !.text = RSub(@, Rat(5, 100))]
        ELSE w1

SumWeights(w) == RAdd(RAdd(w.text, w.skills), RAdd(w.experience, w.education))

\* a slip that leaves one weight out of the total
Normalize_partial(w) ==
    LET total_weight == RAdd(RAdd(w.text, w.skills), w.experience)
    IN  [k \in DOMAIN w |-> RDiv(w[k], total_weight)]

Normalize(w) ==
    LET total_weight == SumWeights(w)
    IN  [k \in DOMAIN w |-> RDiv(w[k], total_weight)]

_calculate_adaptive_weights(job_skills, job_exp_years) ==
    Normalize(ShiftedWeights(job_skills, job_exp_years))

----------------------------------------------------------------------------
(* the scores of one resume: the body of the second loop of rank_resumes   *)

\* a slip that lets the penalty grow without its cap
experience_score_uncapped(experience_years, experience_required) ==
    IF experience_required > 0
    THEN LET exp_ratio == Rat(experience_years, experience_required)
         IN  IF RLe(exp_ratio, One) THEN exp_ratio
             ELSE RSub(One, RMul(RSub(exp_ratio, One), Rat(1, 10)))
    ELSE RMin(Rat(experience_years, 5), One)

\* a slip that sends the boundary ratio = 1 to the penalty branch with a
\* penalty counted from ratio 0
experience_score_strict(experience_years, experience_required) ==
    IF experience_required > 0
    THEN LET exp_ratio == Rat(experience_years, experience_required)
         IN  IF RLt(exp_ratio, One) THEN exp_ratio
             ELSE RSub(One, RMin(RMul(exp_ratio, Rat(1, 10)), Rat(3, 10)))
    ELSE RMin(Rat(experience_years, 5), One)

experience_score(experience_years, experience_required) ==
    IF experience_required > 0
    THEN LET exp_ratio == Rat(experience_years, experience_required)
         IN  IF RLe(exp_ratio, One) THEN exp_ratio
             ELSE RSub(One, RMin(RMul(RSub(exp_ratio, One), Rat(1, 10)),
                                 Rat(3, 10)))
    ELSE RMin(Rat(experience_years, 5), One)

\* a slip that forgets the cap at 1
education_score_uncapped(education_level, education_required) ==
    Rat(education_level, Max(education_required, 3))

\* a slip that divides by the required level itself
education_score_unfloored(education_level, education_required) ==
    RMin(Rat(education_level, education_required), One)

education_score(education_level, education_required) ==
    RMin(Rat(education_level, Max(education_required, 3)), One)

\* a slip that adds the components without their weights
combined_unweighted(w, text_similarity, skill_score, exp_score, edu_score) ==
    RAdd(RAdd(text_similarity, skill_score), RAdd(exp_score, edu_score))

combined(w, text_similarity, skill_score, exp_score, edu_score) ==
    RAdd(RAdd(RMul(w.text, text_similarity), RMul(w.skills, skill_score)),
         RAdd(RMul(w.experience, exp_score), RMul(w.education, edu_score)))

\* a gap that is one short of the difference
gap_short(required, actual) == Max(0, required - actual - 1)

\* max(0, required - actual): experience_gap and education_gap
gap(required, actual) == Max(0, required - actual)

RankingResult(resume, i) ==
    LET match == calculate_advanced_skill_match(job_analysis.skills_required,
                                                resume.skills)
        text_similarity == IF i <= Len(text_similarities)
                           THEN text_similarities[i] ELSE Zero
        exp_score == experience_score(resume.experience_years,
                                      job_analysis.experience_required)
        edu_score == education_score(resume.education_score,
                                     job_analysis.education_required)
        combined_score == combined(weights, text_similarity, match.score,
                                   exp_score, edu_score)
        experience_gap == gap(job_analysis.experience_required,
                              resume.experience_years)
        education_gap == gap(job_analysis.education_required,
                             resume.education_score)
    IN  [filename |-> resume.filename,
         combined_score |-> combined_score,
         text_similarity |-> text_similarity,
         skill_score |-> match.score,
         experience_score |-> exp_score,
         education_score |-> edu_score,
         experience_years |-> resume.experience_years,
         education_level |-> resume.education_score,
         skills_found |-> resume.skills,
         match_percentage |-> RMul(combined_score, Rat(100, 1)),
         recommendations |-> generate_recommendations(match.breakdown,
                                    experience_gap, education_gap)]

\* an exception inside the try of the scoring loop: the resume is skipped
ScoreRaises(resume) ==
    calculate_advanced_skill_match(job_analysis.skills_required,
                                   resume.skills).raises

----------------------------------------------------------------------------
(* sorted(results, key=lambda x: x.combined_score, reverse=True): a stable *)
(* sort, equal keys keep the order they had in results                     *)

\* a sort that puts a result before the results of equal score
InsertAt_unstable(sorted, r) ==
    LET notgreater == {k \in 1..Len(sorted) :
                        RLe(sorted[k].combined_score, r.combined_score)}
    IN  IF notgreater = {} THEN Len(sorted) + 1
        ELSE CHOOSE k \in notgreater : \A j \in notgreater : k <= j

\* the index at which r enters a list sorted so far
InsertAt(sorted, r) ==
    LET smaller == {k \in 1..Len(sorted) :
                        RLt(sorted[k].combined_score, r.combined_score)}
    IN  IF smaller = {} THEN Len(sorted) + 1
        ELSE CHOOSE k \in smaller : \A j \in smaller : k <= j

RECURSIVE SortInto(_, _)
SortInto(sorted, rest) ==
    IF rest = <<>> THEN sorted
    ELSE LET r == Head(rest)
             k == InsertAt(sorted, r)
         IN  SortInto(SubSeq(sorted, 1, k - 1) \o <<r>>
                        \o SubSeq(sorted, k, Len(sorted)),
                      Tail(rest))

sorted_by_combined_score(rs) == SortInto(<<>>, rs)

----------------------------------------------------------------------------
(* The ranker after construction, and the inputs of its operations         *)

\* _get_default_config
DefaultConfig == [max_features |-> 8000, ngram_range |-> <<1, 3>>, min_df |-> 2,
                  text_weight |-> Rat(30, 100), skill_weight |-> Rat(35, 100),
                  experience_weight |-> Rat(20, 100),
                  education_weight |-> Rat(15, 100)]

\* a configuration record passed to the constructor; its weights sum to 1.2
OtherConfig == [max_features |-> 5000, ngram_range |-> <<1, 2>>, min_df |-> 1,
                text_weight |-> Rat(40, 100), skill_weight |-> Rat(40, 100),
                experience_weight |-> Rat(20, 100),
                education_weight |-> Rat(20, 100)]

Configs == {DefaultConfig, OtherConfig}

\* no ranker constructed; None stands for the argument config=None
NoOptions == [o \in {} |-> 0]

None == [given |-> FALSE, options |-> NoOptions]

NoInitCall == [passed |-> None, done |-> FALSE, raised |-> FALSE,
               config |-> NoOptions, weights_read |-> FALSE,
               weights_raised |-> FALSE]

\* the options that the ranker reads from self.config
VectorizerOptions == {"max_features", "ngram_range", "min_df"}

WeightOptions == {"text_weight", "skill_weight", "experience_weight",
                  "education_weight"}

Options == <<"max_features", "ngram_range", "min_df", "text_weight",
             "skill_weight", "experience_weight", "education_weight">>

\* the configuration dicts that set the first n options or some of them, each
\* to its default or to another value
RECURSIVE PartialConfigs(_)
PartialConfigs(n) ==
    IF n = 0 THEN {NoOptions}
    ELSE LET fewer == PartialConfigs(n - 1)
             o == Options[n]
         IN  fewer \cup {c @@ (o :> v) : c \in fewer,
                                          v \in {DefaultConfig[o], OtherConfig[o]}}

PassedConfigs ==
    {None} \cup {[given |-> TRUE, options |-> c] : c \in PartialConfigs(Len(Options))}

\* self.config = config or self._get_default_config(): None and the empty
\* dict are falsy
config_or_default(passed) ==
    IF passed.given /\ DOMAIN passed.options # {}
    THEN passed.options ELSE DefaultConfig

\* self.config[...] of an option that the dict lacks raises KeyError
_initialize_vectorizer(self_config) ==
    [raised |-> ~(VectorizerOptions \subseteq DOMAIN self_config)]

\* UniversalResumeRanker(config): __init__
__init__(passed) ==
    LET self_config == config_or_default(passed)
        key_error == _initialize_vectorizer(self_config).raised
    IN  [NoInitCall EXCEPT !.passed = passed,
                           !.done = TRUE,
                           !.raised = key_error,
                           !.config = IF key_error THEN NoOptions
                                      ELSE self_config]

Words(ws) == [k \in 1..Len(ws) |-> W(ws[k])]

ThreeSkills == Words(<<"ppc", "campaign management", "conversion optimization">>)

AllMarketing == Words(SkillsDatabase[3].skills)

\* MARKETING phrases that the taxonomy lists 16 and 15 times over its sectors
SixteenSkills ==
    SelectSeq(AllMarketing, LAMBDA t : t.w \notin {"seo", "sem", "ppc"})
FifteenSkills == SelectSeq(SixteenSkills, LAMBDA t : t.w # "a/b testing")

YearsOfExperience(y) ==
    IF y = 0 THEN <<>>
    ELSE <<Num(y), W(IF y = 1 THEN "year" ELSE "years"), W("of"), W("experience")>>

SincePresent(start) == <<Num(start), W("-"), W("present")>>

\* job descriptions of the ranking runs
ScenarioJob == ThreeSkills \o YearsOfExperience(4) \o <<W("bachelor")>>
HeavyJob == AllMarketing \o YearsOfExperience(8) \o <<W("master")>>
PlainJob == <<W("and")>>
EmptyJob == <<>>     \* the empty string

JobTexts == {ScenarioJob, HeavyJob, PlainJob, EmptyJob}

\* resume texts of the ranking runs
StrongText == ThreeSkills \o YearsOfExperience(5) \o <<W("master")>>
WeakText(edu) == <<W("ppc")>> \o YearsOfExperience(1) \o edu

ResumeTexts == {StrongText, WeakText(<<>>), WeakText(<<W("bachelor")>>),
                WeakText(<<W("phd")>>)}

\* ResumeData; text None is kept apart from the text
Resume(name, text) == [filename |-> name, text |-> text, text_is_none |-> FALSE]
Malformed(name) == [filename |-> name, text |-> <<>>, text_is_none |-> TRUE]

\* batches whose k-th resume has the filename k
RECURSIVE BatchesOf(_, _)
BatchesOf(k, malformed) ==
    IF k = 0 THEN {<<>>}
    ELSE LET shorter == BatchesOf(k - 1, malformed)
             longest == {b \in shorter : Len(b) = k - 1}
         IN  shorter
             \cup {Append(b, Resume(k, t)) : b \in longest, t \in ResumeTexts}
             \cup {Append(b, Malformed(k)) : b \in IF malformed THEN longest ELSE {}}

\* lists of up to k texts
RECURSIVE TextLists(_, _)
TextLists(T, k) ==
    IF k = 0 THEN {<<>>}
    ELSE LET shorter == TextLists(T, k - 1)
         IN  shorter \cup {Append(l, t) : l \in {x \in shorter : Len(x) = k - 1},
                                          t \in T}

Sims == {Rat(k, SimGrid) : k \in 0..SimGrid}

NoAnalysis == [skills_required |-> <<>>, experience_required |-> 0,
               education_required |-> 1, sector_detected |-> "GENERAL",
               complexity_score |-> Zero]

NoWeights == [text |-> Zero, skills |-> Zero, experience |-> Zero,
              education |-> Zero]

NoResponse == [success |-> FALSE, error |-> "", total_ranked |-> 0]

NotCalled == [called |-> FALSE, value |-> <<>>, after_run |-> FALSE]

NoYears == [done |-> FALSE, value |-> 0]

NoRun ==
    /\ pc = "idle"
    /\ caller = "none"
    /\ job_description = <<>>
    /\ resumes_data = <<>>
    /\ job_analysis = NoAnalysis
    /\ processed_resumes = <<>>
    /\ text_similarities = <<>>
    /\ weights = NoWeights
    /\ results = <<>>
    /\ sorted_results = <<>>
    /\ raised = FALSE
    /\ idx = 0
    /\ api_response = NoResponse
    /\ fitted = <<>>

NoProbe ==
    /\ probe = [text |-> <<>>, ref |-> <<>>]
    /\ probe_first = NotCalled
    /\ probe_last = NotCalled

NoExtract ==
    /\ in_text = <<>>
    /\ out_years = NoYears

NoSimCall == [resume_texts |-> <<>>, fit_raises |-> FALSE, done |-> FALSE,
              value |-> <<>>, raised |-> FALSE]

NoEduCall == [text |-> <<>>, done |-> FALSE, value |-> 0]

NoRecCall == [skill_breakdown |-> <<>>, experience_gap |-> 0,
              education_gap |-> 0, done |-> FALSE, value |-> <<>>]

NoMatchCall == [job_skills |-> <<>>, resume_skills |-> <<>>, done |-> FALSE,
                score |-> Zero, skill_breakdown |-> <<>>, raised |-> FALSE]

NoCalls ==
    /\ sim_call = NoSimCall
    /\ edu_call = NoEduCall
    /\ rec_call = NoRecCall
    /\ init_call = NoInitCall
    /\ match_call = NoMatchCall

Threads == 1..MaxThreads

\* vocabulary: the request whose corpus the vectorizer was fitted on last
Unfitted == [vocabulary |-> 0]

NoRequest == [pc |-> "idle", job_description |-> <<>>, scored_with |-> 0]

NoDownload == [file_type |-> "", status |-> 0]

NoServer ==
    /\ vectorizer = Unfitted
    /\ requests = [t \in Threads |-> NoRequest]
    /\ files = {}
    /\ download = NoDownload

runVars == <<pc, caller, job_description, resumes_data, job_analysis,
             processed_resumes, text_similarities, weights, results,
             sorted_results, raised, idx, api_response, fitted>>
probeVars == <<probe, probe_first, probe_last>>
extractVars == <<in_text, out_years>>
callVars == <<sim_call, edu_call, rec_call, init_call, match_call>>
serverVars == <<vectorizer, requests, files, download>>
rankerVars == <<config, universal_skills>>

----------------------------------------------------------------------------
(* rank_resumes, one action per step *)

Enter(who, job, batch) ==
    /\ pc = "idle"
    /\ pc' = "analyze"
    /\ caller' = who
    /\ job_description' = job
    /\ resumes_data' = batch
    /\ job_analysis' = NoAnalysis
    /\ processed_resumes' = <<>>
    /\ text_similarities' = <<>>
    /\ weights' = NoWeights
    /\ results' = <<>>
    /\ sorted_results' = <<>>
    /\ raised' = FALSE
    /\ idx' = 0
    /\ api_response' = NoResponse
    /\ download' = NoDownload
    /\ fitted' = <<>>
    /\ UNCHANGED <<rankerVars, probeVars, extractVars, callVars, vectorizer,
                   requests, files>>

\* a caller of the ranker calls rank_resumes
rank_resumes ==
    /\ pc = "idle"
    /\ \E job \in JobTexts, batch \in BatchesOf(MaxBatch, TRUE) :
          Enter("direct", job, batch)

\* ResumeRankerAPI.analyze_job_and_rank: process_resume_folder gives every
\* resume a text; no resume, no ranking
analyze_job_and_rank ==
    /\ pc = "idle"
    /\ \E job \in JobTexts, batch \in BatchesOf(MaxBatch, FALSE) :
        \/ /\ batch # <<>>
           /\ Enter("api", job, batch)
        \/ /\ batch = <<>>
           /\ api_response' = [success |-> FALSE,
                               error |-> "No resumes found or processed",
                               total_ranked |-> 0]
           /\ UNCHANGED <<pc, caller, job_description, resumes_data,
                          job_analysis, processed_resumes, text_similarities,
                          weights, results, sorted_results, raised, idx,
                          rankerVars, probeVars, extractVars, callVars, serverVars,
                   fitted>>

\* ResumeRankerAPI.rank_single_resume: resume_text is what the request holds
rank_single_resume ==
    /\ pc = "idle"
    /\ \E job \in JobTexts, batch \in BatchesOf(1, TRUE) :
          /\ batch # <<>>
          /\ Enter("single", job, batch)

AnalyzeJob ==
    /\ pc = "analyze"
    /\ job_analysis' = analyze_job_description(job_description)
    /\ idx' = 1
    /\ pc' = "parse"
    /\ UNCHANGED <<caller, job_description, resumes_data, processed_resumes,
                   text_similarities, weights, results, sorted_results, raised,
                   api_response, rankerVars, probeVars, extractVars, callVars, serverVars,
                   fitted>>

ParseResume ==
    /\ pc = "parse"
    /\ idx <= Len(resumes_data)
    /\ processed_resumes' =
          IF ParseFails(resumes_data[idx]) THEN processed_resumes
          ELSE Append(processed_resumes,
                      parse_resume(resumes_data[idx], job_analysis.skills_required))
    /\ idx' = idx + 1
    /\ UNCHANGED <<pc, caller, job_description, resumes_data, job_analysis,
                   text_similarities, weights, results, sorted_results, raised,
                   api_response, rankerVars, probeVars, extractVars, callVars, serverVars,
                   fitted>>

\* if not processed_resumes: return []
NoneProcessed_raises == [value |-> <<>>, raised |-> TRUE]

NoneProcessed == [value |-> <<>>, raised |-> FALSE]

EndParse ==
    /\ pc = "parse"
    /\ idx > Len(resumes_data)
    /\ IF processed_resumes = <<>>
       THEN /\ sorted_results' = NoneProcessed.value
            /\ raised' = NoneProcessed.raised
            /\ pc' = "returned"
       ELSE /\ pc' = "similarity"
            /\ UNCHANGED <<sorted_results, raised>>
    /\ UNCHANGED <<caller, job_description, resumes_data, job_analysis,
                   processed_resumes, text_similarities, weights, results, idx,
                   api_response, rankerVars, probeVars, extractVars, callVars, serverVars,
                   fitted>>

\* calculate_text_similarity: one similarity per resume text; all zero when
\* fit_transform raises. An exception leaving it would leave rank_resumes.
calculate_text_similarity ==
    /\ pc = "similarity"
    /\ \E fit_raises \in BOOLEAN, cosine \in [1..Len(processed_resumes) -> Sims] :
          LET resume_texts == [k \in 1..Len(processed_resumes) |->
                                  processed_resumes[k].raw_text]
              returned == similarities(resume_texts, fit_raises, cosine)
          IN  /\ fitted' = Append(fitted,
                                   all_texts(job_description, resume_texts))
              /\ text_similarities' = returned.value
              /\ raised' = returned.raised
              /\ pc' = IF returned.raised THEN "returned" ELSE "weights"
    /\ UNCHANGED <<caller, job_description, resumes_data, job_analysis,
                   processed_resumes, weights, results, sorted_results,
                   idx, api_response, rankerVars, probeVars, extractVars, callVars, serverVars>>

CalculateWeights ==
    /\ pc = "weights"
    /\ weights' = _calculate_adaptive_weights(job_analysis.skills_required,
                                              job_analysis.experience_required)
    /\ idx' = 1
    /\ pc' = "score"
    /\ UNCHANGED <<caller, job_description, resumes_data, job_analysis,
                   processed_resumes, text_similarities, results,
                   sorted_results, raised, api_response, rankerVars, probeVars,
                   extractVars, callVars, serverVars,
                   fitted>>

ScoreResume ==
    /\ pc = "score"
    /\ idx <= Len(processed_resumes)
    /\ results' = IF ScoreRaises(processed_resumes[idx]) THEN results
                   ELSE Append(results,
                               RankingResult(processed_resumes[idx], idx))
    /\ idx' = idx + 1
    /\ UNCHANGED <<pc, caller, job_description, resumes_data, job_analysis,
                   processed_resumes, text_similarities, weights,
                   sorted_results, raised, api_response, rankerVars, probeVars,
                   extractVars, callVars, serverVars,
                   fitted>>

SortResults ==
    /\ pc = "score"
    /\ idx > Len(processed_resumes)
    /\ sorted_results' = sorted_by_combined_score(results)
    /\ pc' = "returned"
    /\ UNCHANGED <<caller, job_description, resumes_data, job_analysis,
                   processed_resumes, text_similarities, weights, results,
                   raised, idx, api_response, rankerVars, probeVars,
                   extractVars, callVars, serverVars,
                   fitted>>

\* the caller has the list; the locals of the run are gone
Leave(response) ==
    /\ pc = "returned"
    /\ pc' = "idle"
    /\ caller' = "none"
    /\ job_description' = <<>>
    /\ resumes_data' = <<>>
    /\ job_analysis' = NoAnalysis
    /\ processed_resumes' = <<>>
    /\ text_similarities' = <<>>
    /\ weights' = NoWeights
    /\ results' = <<>>
    /\ sorted_results' = <<>>
    /\ raised' = FALSE
    /\ idx' = 0
    /\ api_response' = response
    /\ fitted' = <<>>
    /\ UNCHANGED <<rankerVars, probe, probe_last, extractVars, callVars,
                   vectorizer, requests, download>>

ReturnDirect ==
    /\ caller = "direct"
    /\ Leave(NoResponse)
    /\ UNCHANGED <<probe_first, files>>

\* the files export_results_json and export_detailed_results write
JsonFile == "ranking_results.json"
CsvFile == "detailed_resume_ranking.csv"

\* create_dashboard_data gives {} for no result, and dashboard_data['summary']
\* raises; a batch of texts always has a result, and the results are exported
ReturnApi ==
    /\ caller = "api"
    /\ Leave([success |-> TRUE, error |-> "",
              total_ranked |-> Len(sorted_results)])
    /\ files' = files \cup {JsonFile, CsvFile}
    /\ UNCHANGED probe_first

ReturnSingle ==
    /\ caller = "single"
    /\ Leave(IF sorted_results = <<>>
             THEN [success |-> FALSE, error |-> "Failed to process resume",
                   total_ranked |-> 0]
             ELSE [success |-> TRUE, error |-> "", total_ranked |-> 1])
    /\ probe_first' = [probe_first EXCEPT !.after_run = probe_first.called]
    /\ UNCHANGED files

----------------------------------------------------------------------------
(* Direct calls of the extractors *)

MarketingOnly == <<SkillsDatabase[3]>>

ProbeInputs == {[text |-> StrongText, ref |-> <<>>],
                [text |-> HeavyJob, ref |-> <<>>],
                [text |-> HeavyJob, ref |-> MarketingOnly],
                [text |-> PlainJob, ref |-> <<>>],
                [text |-> <<>>, ref |-> <<>>],
                [text |-> <<>>, ref |-> MarketingOnly]}

\* extract_dynamic_skills(text, reference_skills), called between two
\* operations of the ranker, again and again with the same arguments
ExtractSkillsCall ==
    /\ pc = "idle"
    /\ \E p \in ProbeInputs :
          /\ probe_first.called => p = probe
          /\ probe' = p
          /\ LET found_skills == extract_dynamic_skills(p.text, p.ref)
             IN  /\ probe_last' = [called |-> TRUE, value |-> found_skills,
                                   after_run |-> probe_first.after_run]
                 /\ probe_first' = IF probe_first.called THEN probe_first
                                   ELSE [called |-> TRUE, value |-> found_skills,
                                         after_run |-> FALSE]
    /\ UNCHANGED <<runVars, rankerVars, extractVars, callVars, serverVars>>

\* calculate_text_similarity(job_description, resume_texts), called directly
SimilarityCall ==
    /\ ~sim_call.done
    /\ \E fit_raises \in BOOLEAN,
          cosine \in [1..Len(sim_call.resume_texts) -> Sims] :
          LET returned == similarities(sim_call.resume_texts, fit_raises, cosine)
          IN  sim_call' = [sim_call EXCEPT !.fit_raises = fit_raises,
                                           !.done = TRUE,
                                           !.value = returned.value,
                                           !.raised = returned.raised]
    /\ UNCHANGED <<edu_call, rec_call, init_call, match_call, runVars, rankerVars, probeVars,
                   extractVars, serverVars>>

\* generate_recommendations(skill_breakdown, experience_gap, education_gap),
\* called directly
GenerateRecommendationsCall ==
    /\ ~rec_call.done
    /\ rec_call' = [rec_call EXCEPT
          !.done = TRUE,
          !.value = generate_recommendations(rec_call.skill_breakdown,
                        rec_call.experience_gap, rec_call.education_gap)]
    /\ UNCHANGED <<sim_call, edu_call, init_call, match_call, runVars, rankerVars, probeVars,
                   extractVars, serverVars>>

\* UniversalResumeRanker(config), constructed by a caller
Construct ==
    /\ ~init_call.done
    /\ init_call' = __init__(init_call.passed)
    /\ UNCHANGED <<sim_call, edu_call, rec_call, match_call, runVars, rankerVars,
                   probeVars, extractVars, serverVars>>

\* the constructed ranker reads its weights in _calculate_adaptive_weights
ReadWeights ==
    /\ init_call.done
    /\ ~init_call.raised
    /\ ~init_call.weights_read
    /\ init_call' = [init_call EXCEPT
          !.weights_read = TRUE,
          !.weights_raised = ~(WeightOptions \subseteq DOMAIN init_call.config)]
    /\ UNCHANGED <<sim_call, edu_call, rec_call, match_call, runVars, rankerVars,
                   probeVars, extractVars, serverVars>>

\* calculate_advanced_skill_match(job_skills, resume_skills), called directly
SkillMatchCall ==
    /\ ~match_call.done
    /\ LET returned == calculate_advanced_skill_match(match_call.job_skills,
                                                      match_call.resume_skills)
       IN  match_call' = [match_call EXCEPT
                              !.done = TRUE,
                              !.score = returned.score,
                              !.skill_breakdown = returned.breakdown,
                              !.raised = returned.raises]
    /\ UNCHANGED <<sim_call, edu_call, rec_call, init_call, runVars,
                   rankerVars, probeVars, extractVars, serverVars>>

\* extract_education(text), called directly
ExtractEducationCall ==
    /\ ~edu_call.done
    /\ edu_call' = [edu_call EXCEPT !.done = TRUE,
                                     !.value = extract_education(edu_call.text)]
    /\ UNCHANGED <<sim_call, rec_call, init_call, match_call, runVars, rankerVars, probeVars,
                   extractVars, serverVars>>

ExtractExperienceCall ==
    /\ ~out_years.done
    /\ out_years' = [done |-> TRUE, value |-> extract_experience_years(in_text)]
    /\ UNCHANGED <<in_text, runVars, rankerVars, probeVars, callVars, serverVars>>

----------------------------------------------------------------------------
(* flask_server: ranker_api is the one ResumeRankerAPI of the process, its *)
(* ranker has the one TfidfVectorizer made by _initialize_vectorizer, and  *)
(* the requests are served by threads that no lock serializes.             *)
(* fit_transform stores the vocabulary and the idf weights it learns from  *)
(* the texts on the vectorizer and then transforms the texts with what the *)
(* vectorizer holds.                                                       *)

callerVars == <<runVars, rankerVars, probeVars, extractVars, callVars>>

\* POST /api/rank-single-resume reaches calculate_text_similarity
RequestArrives(t) ==
    /\ requests[t].pc = "idle"
    /\ \E job \in JobTexts :
          requests' = [requests EXCEPT ![t] =
              [pc |-> "fit", job_description |-> job, scored_with |-> 0]]
    /\ UNCHANGED <<vectorizer, files, download, callerVars>>

\* self.vectorizer.fit_transform(all_texts): the fit
FitVectorizer(t) ==
    /\ requests[t].pc = "fit"
    /\ vectorizer' = [vocabulary |-> t]
    /\ requests' = [requests EXCEPT ![t].pc = "transform"]
    /\ UNCHANGED <<files, download, callerVars>>

\* self.vectorizer.fit_transform(all_texts): the transform, and the cosine
TransformTexts(t) ==
    /\ requests[t].pc = "transform"
    /\ requests' = [requests EXCEPT ![t].pc = "scored",
                                     ![t].scored_with = vectorizer.vocabulary]
    /\ UNCHANGED <<vectorizer, files, download, callerVars>>

\* return jsonify(result)
RequestAnswered(t) ==
    /\ requests[t].pc = "scored"
    /\ requests' = [requests EXCEPT ![t] = NoRequest]
    /\ UNCHANGED <<vectorizer, files, download, callerVars>>

\* what a client puts for <file_type>
FileTypes == {"json", "csv", "invalid", "pdf", "JSON"}

\* a download that takes every file type for 'json'
download_status_any(file_type, existing) ==
    IF JsonFile \notin existing THEN 404 ELSE 200

\* the status download_results answers with
download_status(file_type, existing) ==
    LET filename == IF file_type = "json" THEN JsonFile ELSE CsvFile
    IN  IF file_type \notin {"json", "csv"} THEN 400
        ELSE IF filename \notin existing THEN 404
        ELSE 200

\* GET /api/download/<file_type>, between two analyses
download_results ==
    /\ pc = "idle"
    /\ \E file_type \in FileTypes :
          download' = [file_type |-> file_type,
                       status |-> download_status(file_type, files)]
    /\ UNCHANGED <<vectorizer, requests, files, callerVars>>

----------------------------------------------------------------------------
(* Specifications *)

\* the ranker ranks batches, called directly or through the API
Init ==
    /\ config \in Configs
    /\ universal_skills = SkillsDatabase
    /\ NoRun
    /\ NoProbe
    /\ NoCalls
    /\ NoServer
    /\ NoExtract

Next ==
    \/ rank_resumes
    \/ analyze_job_and_rank
    \/ AnalyzeJob
    \/ ParseResume
    \/ EndParse
    \/ calculate_text_similarity
    \/ CalculateWeights
    \/ ScoreResume
    \/ SortResults
    \/ ReturnDirect
    \/ ReturnApi

Spec == Init /\ [][Next]_vars

\* extract_dynamic_skills is called between single-resume rankings
NextSkills ==
    \/ ExtractSkillsCall
    \/ rank_single_resume
    \/ AnalyzeJob
    \/ ParseResume
    \/ EndParse
    \/ calculate_text_similarity
    \/ CalculateWeights
    \/ ScoreResume
    \/ SortResults
    \/ ReturnSingle

SpecSkills == Init /\ [][NextSkills]_vars

\* extract_experience_years applied to every text of ExperienceTexts
InitExtract ==
    /\ config = DefaultConfig
    /\ universal_skills = SkillsDatabase
    /\ NoRun
    /\ NoProbe
    /\ NoCalls
    /\ NoServer
    /\ in_text \in ExperienceTexts
    /\ out_years = NoYears

SpecExtract == InitExtract /\ [][ExtractExperienceCall]_vars

\* words of education sections: two keywords of every tier and another word
EducationWords == {W("doctorate"), W("phd"), W("mba"), W("master"),
                   W("bachelor"), W("degree"), W("diploma"), W("certificate"),
                   W("and")}

\* extract_education applied to every text of up to MaxKeywords of them
InitEducation ==
    /\ init_call = NoInitCall
    /\ match_call = NoMatchCall
    /\ config = DefaultConfig
    /\ universal_skills = SkillsDatabase
    /\ NoRun
    /\ NoProbe
    /\ NoExtract
    /\ NoServer
    /\ sim_call = NoSimCall
    /\ rec_call = NoRecCall
    /\ \E text \in TextLists(EducationWords, MaxKeywords) :
          edu_call = [NoEduCall EXCEPT !.text = text]

SpecEducation == InitEducation /\ [][ExtractEducationCall]_vars

\* sectors of the taxonomy whose first phrases no other of them has
GapSectors == <<1, 2, 4, 5>>

Reverse(q) == [k \in 1..Len(q) |-> q[Len(q) + 1 - k]]

\* what a resume can miss of the first four phrases of a sector: none, the
\* first ones in the order of the job, or all in another order (the order of
\* list(set(..)) is not the order of the job)
MissingOf(sector) ==
    LET asked == Take(SkillsDatabase[sector].skills, 4)
    IN  {Take(asked, n) : n \in 0..4} \cup {Reverse(asked)}

\* the gap detail of sector k with these phrases missing
GapDetail(k, missing) ==
    LET asked == Take(SkillsDatabase[GapSectors[k]].skills, 4)
        matched == SelectSeq(asked, LAMBDA x : x \notin Range(missing))
    IN  [category |-> SkillsDatabase[GapSectors[k]].category,
         required |-> 4, matched |-> Len(matched),
         matched_skills |-> matched, missing_skills |-> missing]

RECURSIVE GapDetails(_)
GapDetails(k) ==
    IF k = 0 THEN {<<>>}
    ELSE LET shorter == GapDetails(k - 1)
         IN  shorter \cup
             {Append(d, GapDetail(k, m)) :
                 d \in {x \in shorter : Len(x) = k - 1},
                 m \in MissingOf(GapSectors[k])}

\* generate_recommendations applied to the gap details of up to MaxSectors
\* sectors
InitRecommend ==
    /\ init_call = NoInitCall
    /\ match_call = NoMatchCall
    /\ config = DefaultConfig
    /\ universal_skills = SkillsDatabase
    /\ NoRun
    /\ NoProbe
    /\ NoExtract
    /\ NoServer
    /\ sim_call = NoSimCall
    /\ edu_call = NoEduCall
    /\ \E d \in GapDetails(MaxSectors), e \in {0, 2}, g \in {0, 1} :
          rec_call = [NoRecCall EXCEPT !.skill_breakdown = d,
                                       !.experience_gap = e,
                                       !.education_gap = g]

SpecRecommend == InitRecommend /\ [][GenerateRecommendationsCall]_vars

\* UniversalResumeRanker(config) with every configuration of PassedConfigs
InitConstruct ==
    /\ config = DefaultConfig
    /\ universal_skills = SkillsDatabase
    /\ NoRun
    /\ NoProbe
    /\ NoExtract
    /\ NoServer
    /\ sim_call = NoSimCall
    /\ edu_call = NoEduCall
    /\ rec_call = NoRecCall
    /\ match_call = NoMatchCall
    /\ \E passed \in PassedConfigs :
          init_call = [NoInitCall EXCEPT !.passed = passed]

NextConstruct == Construct \/ ReadWeights

SpecConstruct == InitConstruct /\ [][NextConstruct]_vars

\* phrases of MARKETING, of DIGITAL-MEDIA and MARKETING, of
\* BUSINESS-DEVELOPMENT and of SOFT-SKILLS
MatchWords == {W("ppc"), W("seo"), W("content creation"),
               W("strategic planning"), W("teamwork")}

\* resumes with none, one, two and three of these phrases
MatchResumeTexts == {<<>>, Words(<<"ppc">>), Words(<<"seo">>),
                     Words(<<"strategic planning">>),
                     Words(<<"ppc", "teamwork">>),
                     Words(<<"seo", "content creation">>),
                     Words(<<"teamwork", "strategic planning">>),
                     Words(<<"ppc", "seo", "content creation">>)}

\* calculate_advanced_skill_match applied to the skills of a job description
\* and to the skills of a resume, found among the job's or in the taxonomy
InitMatch ==
    /\ config = DefaultConfig
    /\ universal_skills = SkillsDatabase
    /\ NoRun
    /\ NoProbe
    /\ NoExtract
    /\ NoServer
    /\ sim_call = NoSimCall
    /\ edu_call = NoEduCall
    /\ rec_call = NoRecCall
    /\ init_call = NoInitCall
    /\ \E job \in TextLists(MatchWords, MaxPhrases),
          resume \in MatchResumeTexts,
          among_job \in BOOLEAN :
          LET job_skills == extract_dynamic_skills(job, <<>>)
          IN  match_call =
                [NoMatchCall EXCEPT
                    !.job_skills = job_skills,
                    !.resume_skills =
                        extract_dynamic_skills(resume,
                            IF among_job THEN job_skills ELSE <<>>)]

SpecMatch == InitMatch /\ [][SkillMatchCall]_vars

\* flask_server serves up to MaxThreads requests at a time
InitConcurrent ==
    /\ config = DefaultConfig
    /\ universal_skills = SkillsDatabase
    /\ NoRun
    /\ NoProbe
    /\ NoCalls
    /\ NoServer
    /\ NoExtract

NextConcurrent ==
    \E t \in Threads :
        \/ RequestArrives(t)
        \/ FitVectorizer(t)
        \/ TransformTexts(t)
        \/ RequestAnswered(t)

SpecConcurrent == InitConcurrent /\ [][NextConcurrent]_vars

\* flask_server answers analyses and downloads
NextServer ==
    \/ download_results
    \/ analyze_job_and_rank
    \/ AnalyzeJob
    \/ ParseResume
    \/ EndParse
    \/ calculate_text_similarity
    \/ CalculateWeights
    \/ ScoreResume
    \/ SortResults
    \/ ReturnApi

SpecServer == InitConcurrent /\ [][NextServer]_vars

\* calculate_text_similarity applied to every list of up to MaxBatch texts
InitSimilarity ==
    /\ init_call = NoInitCall
    /\ match_call = NoMatchCall
    /\ config = DefaultConfig
    /\ universal_skills = SkillsDatabase
    /\ NoRun
    /\ NoProbe
    /\ NoExtract
    /\ NoServer
    /\ edu_call = NoEduCall
    /\ rec_call = NoRecCall
    /\ \E l \in TextLists(ResumeTexts, MaxBatch) :
          sim_call = [NoSimCall EXCEPT !.resume_texts = l]

SpecSimilarity == InitSimilarity /\ [][SimilarityCall]_vars

\* one resume scored against one job description, for every number of years
\* up to MaxYears on either side: the run from its weights on, in the state
\* the steps before have left
StatedYears == {YearsOfExperience(y) : y \in 0..MaxYears}
                \cup {SincePresent(CurrentYear + 1)}

ScoreJobTexts == {skills \o years \o edu :
                    skills \in {<<>>, ThreeSkills, FifteenSkills, SixteenSkills,
                                AllMarketing},
                    years \in StatedYears,
                    edu \in {<<W("bachelor")>>}}

ScoreResumeTexts == {skills \o years \o edu :
                        skills \in {<<W("ppc")>>, ThreeSkills},
                        years \in StatedYears,
                        edu \in {<<>>, <<W("master")>>}}

InitScore ==
    /\ config \in Configs
    /\ universal_skills = SkillsDatabase
    /\ NoProbe
    /\ NoCalls
    /\ NoServer
    /\ NoExtract
    /\ caller = "direct"
    /\ job_description \in ScoreJobTexts
    /\ resumes_data \in {<<Resume(1, t)>> : t \in ScoreResumeTexts}
    /\ job_analysis = analyze_job_description(job_description)
    /\ processed_resumes =
          <<parse_resume(resumes_data[1], job_analysis.skills_required)>>
    /\ text_similarities \in [1..1 -> Sims]
    /\ weights = NoWeights
    /\ results = <<>>
    /\ sorted_results = <<>>
    /\ raised = FALSE
    /\ idx = 2
    /\ api_response = NoResponse
    /\ fitted = <<all_texts(job_description,
                            <<processed_resumes[1].raw_text>>)>>
    /\ pc = "weights"

NextScore ==
    \/ CalculateWeights
    \/ ScoreResume
    \/ SortResults

SpecScore == InitScore /\ [][NextScore]_vars

\* words of job descriptions: phrases of one sector, of two sectors, of
\* SOFT-SKILLS, and a word of no sector
SectorWords == {W("strategic planning"), W("content creation"), W("seo"),
                W("ppc"), W("marketing"), W("teamwork"), W("and")}

AnalyzeTexts == {phrases \o years :
                    phrases \in TextLists(SectorWords, MaxPhrases),
                    years \in {<<>>, YearsOfExperience(8),
                               SincePresent(CurrentYear + 1)}}

\* rank_resumes analyses a job description for an empty batch
InitAnalyze ==
    /\ config = DefaultConfig
    /\ universal_skills = SkillsDatabase
    /\ NoProbe
    /\ NoCalls
    /\ NoServer
    /\ NoExtract
    /\ caller = "direct"
    /\ job_description \in AnalyzeTexts
    /\ resumes_data = <<>>
    /\ job_analysis = NoAnalysis
    /\ processed_resumes = <<>>
    /\ text_similarities = <<>>
    /\ weights = NoWeights
    /\ results = <<>>
    /\ sorted_results = <<>>
    /\ raised = FALSE
    /\ idx = 0
    /\ api_response = NoResponse
    /\ fitted = <<>>
    /\ pc = "analyze"

NextAnalyze ==
    \/ AnalyzeJob
    \/ EndParse

SpecAnalyze == InitAnalyze /\ [][NextAnalyze]_vars

\* one resume scored against one job description, for every education level
\* on either side
EducationOf == {<<>>, <<W("diploma")>>, <<W("bachelor")>>, <<W("master")>>,
                <<W("phd")>>}

LevelJobTexts == {ThreeSkills \o years \o edu :
                    years \in {<<>>, YearsOfExperience(4)},
                    edu \in EducationOf}

LevelResumeTexts == {skills \o YearsOfExperience(2) \o edu :
                        skills \in {<<W("ppc")>>, ThreeSkills},
                        edu \in EducationOf}

InitLevels ==
    /\ config = DefaultConfig
    /\ universal_skills = SkillsDatabase
    /\ NoProbe
    /\ NoCalls
    /\ NoServer
    /\ NoExtract
    /\ caller = "direct"
    /\ job_description \in LevelJobTexts
    /\ resumes_data \in {<<Resume(1, t)>> : t \in LevelResumeTexts}
    /\ job_analysis = analyze_job_description(job_description)
    /\ processed_resumes =
          <<parse_resume(resumes_data[1], job_analysis.skills_required)>>
    /\ text_similarities \in [1..1 -> Sims]
    /\ weights = NoWeights
    /\ results = <<>>
    /\ sorted_results = <<>>
    /\ raised = FALSE
    /\ idx = 2
    /\ api_response = NoResponse
    /\ fitted = <<all_texts(job_description,
                            <<processed_resumes[1].raw_text>>)>>
    /\ pc = "weights"

SpecLevels == InitLevels /\ [][NextScore]_vars

----------------------------------------------------------------------------
(* Properties *)

InUnit(x) == RLe(Zero, x) /\ RLe(x, One)

Computed == pc \in {"score", "returned"}

\* C1: whatever the number of required skills and of required years, so
\* with none, one or both of the shifts, the four weights that
\* _calculate_adaptive_weights returns, used by the run, sum to 1.
C1_WeightsSumToOne == Computed => SumWeights(weights) = One

C1_Witness ==
    /\ Computed
    /\ SumLen(job_analysis.skills_required) > SkillHeavy
    /\ job_analysis.experience_required > ExperienceHeavy
    /\ config = OtherConfig
    /\ weights.text # config.text_weight

C3_SortedStable ==
    pc = "returned" =>
        /\ Len(sorted_results) = Len(results)
        /\ Range(sorted_results) = Range(results)
        /\ \A i, j \in 1..Len(sorted_results) :
              i < j =>
                /\ RLe(sorted_results[j].combined_score,
                       sorted_results[i].combined_score)
                /\ sorted_results[i].combined_score
                      = sorted_results[j].combined_score
                   => sorted_results[i].filename < sorted_results[j].filename

C3_Witness ==
    /\ pc = "returned"
    /\ Len(sorted_results) >= 2
    /\ sorted_results[1].combined_score = sorted_results[2].combined_score
    /\ sorted_results[1].filename < sorted_results[2].filename

\* C4: with required years > 0, a resume whose years equal the required
\* years has the experience score 1: nothing is taken off at ratio = 1.
C4_ExactYearsScoreOne ==
    \A k \in 1..Len(results) :
        (/\ job_analysis.experience_required > 0
         /\ results[k].experience_years = job_analysis.experience_required)
        => results[k].experience_score = One

C4_Witness ==
    \E k \in 1..Len(results) :
        /\ job_analysis.experience_required > 1
        /\ results[k].experience_years = job_analysis.experience_required
        /\ results[k].experience_score = One

\* C5: with required years > 0, a resume with more years than required has
\* the experience score 1 - min((ratio - 1) * 0.1, 0.3), which is never
\* below 0.7.
C5_PenaltyBounded ==
    \A k \in 1..Len(results) :
        LET req == job_analysis.experience_required
            years == results[k].experience_years
        IN  (req > 0 /\ years > req) =>
                /\ results[k].experience_score =
                      RSub(One, RMin(Rat(years - req, 10 * req), Rat(3, 10)))
                /\ RLe(Rat(7, 10), results[k].experience_score)
                /\ RLt(results[k].experience_score, One)

C5_Witness ==
    \E k \in 1..Len(results) :
        /\ job_analysis.experience_required > 0
        /\ results[k].experience_years > 4 * job_analysis.experience_required
        /\ results[k].experience_score = Rat(7, 10)

FiveTwice == <<Num(5), W("years"), W("of"), W("experience"),
               Num(5), W("years"), W("in"), W("management")>>

FiveAndThree == <<Num(5), W("years"), W("of"), W("experience"), W("and"),
                  Num(3), W("years"), W("in"), W("management")>>

\* C6: extract_experience_years returns min(50, the sum of the distinct
\* values of all the matches of all the patterns): 5 for "5 years of
\* experience 5 years in management", 8 for "5 years of experience and 3
\* years in management", and 0 when nothing matches.
C6_SumOfDistinctYears ==
    out_years.done =>
        LET years == matched_years(in_text, Len(patterns))
        IN  /\ out_years.value = Min(YearCap, SumSet(Range(years)))
            /\ years = <<>> => out_years.value = 0
            /\ in_text = FiveTwice => out_years.value = 5
            /\ in_text = FiveAndThree => out_years.value = 8

C6_Witness ==
    /\ out_years.done
    /\ in_text = FiveTwice
    /\ Len(matched_years(in_text, Len(patterns))) > 2
    /\ out_years.value = 5

\* C7: extract_experience_years returns an integer of 0..50 for every text,
\* whatever start year a "<YYYY> - present" mention states.
C7_YearsInRange == out_years.done => out_years.value \in 0..YearCap

C9_Scenario ==
    (/\ SumLen(job_analysis.skills_required) = 3
     /\ job_analysis.sector_detected = "MARKETING"
     /\ job_analysis.experience_required = 4
     /\ job_analysis.education_required = 3)
    => \A a, b \in 1..Len(results) :
          (/\ SumLen(results[a].skills_found) = 3
           /\ results[a].experience_years = 5
           /\ results[a].education_level = 4
           /\ SumLen(results[b].skills_found) = 1
           /\ results[b].experience_years = 1)
          => /\ results[a].skill_score = One
             /\ results[a].education_score = One
             /\ results[a].experience_score = Rat(975, 1000)
             /\ results[b].skill_score = Rat(1, 3)
             /\ RLt(results[b].combined_score, results[a].combined_score)

C9_Witness ==
    /\ pc = "returned"
    /\ job_description = ScenarioJob
    /\ Len(results) = 2
    /\ results[1].education_level = 5
    /\ results[1].text_similarity = One
    /\ SumLen(results[1].skills_found) = 1
    /\ results[2].text_similarity = Zero
    /\ SumLen(results[2].skills_found) = 3
    /\ sorted_results[1] = results[2]

\* C10: rank_resumes on an empty batch returns an empty list and raises
\* nothing.
C10_EmptyBatch ==
    (pc = "returned" /\ resumes_data = <<>>) =>
        sorted_results = <<>> /\ ~raised

C10_Witness ==
    /\ pc = "returned"
    /\ resumes_data = <<>>
    /\ caller = "direct"
    /\ job_analysis.skills_required # <<>>

\* C11: when the job description asks for no skill phrase, every resume of
\* the run that was parsed is scored (the skill match divides by nothing and
\* no resume is skipped for a ZeroDivisionError) and its skill score is 0,
\* whatever skills the resume has.
C11_NoSkillsRequired ==
    (/\ pc = "returned"
     /\ SumLen(job_analysis.skills_required) = 0)
    => /\ ~raised
       /\ Len(results) = Len(processed_resumes)
       /\ \A k \in 1..Len(results) : results[k].skill_score = Zero

C11_Witness ==
    /\ pc = "returned"
    /\ SumLen(job_analysis.skills_required) = 0
    /\ Len(results) = 2
    /\ \A k \in 1..2 : /\ results[k].skills_found # <<>>
                       /\ results[k].skill_score = Zero

\* C12: rank_resumes ends by returning, whichever resumes of the batch fail:
\* the returned list has exactly one result for every resume that did not fail
\* and none for a resume that failed (its text is None).
C12_FailuresSkipped ==
    pc = "returned" =>
        /\ ~raised
        /\ \A i \in 1..Len(resumes_data) :
              Cardinality({k \in 1..Len(sorted_results) :
                  sorted_results[k].filename = resumes_data[i].filename})
                = IF resumes_data[i].text_is_none THEN 0 ELSE 1
        /\ \A k \in 1..Len(sorted_results) :
              \E i \in 1..Len(resumes_data) :
                  sorted_results[k].filename = resumes_data[i].filename

C12_Witness ==
    /\ pc = "returned"
    /\ Len(resumes_data) = 2
    /\ resumes_data[1].text_is_none
    /\ ~resumes_data[2].text_is_none
    /\ Len(sorted_results) = 1
    /\ sorted_results[1].filename = resumes_data[2].filename

\* C13: calculate_text_similarity returns and does not raise: one score for
\* every text of resume_texts, the empty array for the empty list, and a
\* zero for every text when fitting the vectorizer raises.
C13_SimilarityNeverRaises ==
    sim_call.done =>
        /\ ~sim_call.raised
        /\ Len(sim_call.value) = Len(sim_call.resume_texts)
        /\ sim_call.resume_texts = <<>> => sim_call.value = <<>>
        /\ sim_call.fit_raises =>
              \A k \in 1..Len(sim_call.value) : sim_call.value[k] = Zero

C13_Witness ==
    /\ sim_call.done
    /\ sim_call.fit_raises
    /\ Len(sim_call.resume_texts) = 2
    /\ sim_call.value = <<Zero, Zero>>

\* C14: a run of rank_resumes over a batch that is not empty does not return
\* the empty list: it returns results or it is left by an exception.
C14_NoSilentEmpty ==
    (/\ pc = "returned"
     /\ resumes_data # <<>>
     /\ sorted_results = <<>>)
    => raised

\* C15: a run of rank_resumes on the empty job description is left by an
\* exception and returns no ranked list.
C15_EmptyJobFatal ==
    (/\ pc = "returned"
     /\ job_description = EmptyJob)
    => /\ raised
       /\ sorted_results = <<>>

\* C16: the similarity scores of a request are computed from the vocabulary
\* fitted on the texts of that request, in every interleaving of the requests.
C16_OwnVectorModel ==
    \A t \in Threads :
        requests[t].pc = "scored" => requests[t].scored_with = t

\* the level of the tier a word of EducationWords is a keyword of
TierLevel(word) ==
    CASE word \in {W("doctorate"), W("phd")} -> 5
      [] word \in {W("mba"), W("master")} -> 4
      [] word \in {W("bachelor"), W("degree")} -> 3
      [] word \in {W("diploma"), W("certificate")} -> 2
      [] OTHER -> 1

\* C17: extract_education returns a level of 1..5: the level of the highest
\* tier that has a keyword in the text (doctorate 5, masters 4, bachelors 3,
\* diploma 2), whichever tiers match and in whichever order, and 1 when no
\* tier matches.
C17_HighestTier ==
    edu_call.done =>
        /\ edu_call.value \in 1..5
        /\ \A i \in 1..Len(edu_call.text) :
              TierLevel(edu_call.text[i]) <= edu_call.value
        /\ \/ edu_call.value = 1
           \/ \E i \in 1..Len(edu_call.text) :
                 TierLevel(edu_call.text[i]) = edu_call.value

C17_Witness ==
    /\ edu_call.done
    /\ edu_call.text = <<W("diploma"), W("master"), W("and"), W("degree")>>
    /\ edu_call.value = 4

\* the place of a statement in the fixed order
StatementRank(kind) ==
    CASE kind = "skills" -> 1 [] kind = "experience" -> 2 [] OTHER -> 3

\* how many phrases the sectors before the j-th give, three at most each
RECURSIVE GivenBefore(_, _)
GivenBefore(skill_breakdown, j) ==
    IF j <= 1 THEN 0
    ELSE GivenBefore(skill_breakdown, j - 1)
            + Min(3, Len(skill_breakdown[j - 1].missing_skills))

\* C18: generate_recommendations returns at most three statements, in the
\* order skills, experience, education; there is a skills statement iff some
\* sector of the gap detail has a missing phrase, and it names at most 5
\* phrases: the first 3 missing phrases of each sector at most, sector after
\* sector in the order of the gap detail, cut after the fifth.
C18_Recommendations ==
    rec_call.done =>
        LET recs == rec_call.value
            detail == rec_call.skill_breakdown
            given == GivenBefore(detail, Len(detail) + 1)
        IN  /\ Len(recs) <= 3
            /\ \A a, b \in 1..Len(recs) :
                  a < b => StatementRank(recs[a].kind) < StatementRank(recs[b].kind)
            /\ (\E a \in 1..Len(recs) : recs[a].kind = "skills")
                  <=> (\E j \in 1..Len(detail) : detail[j].missing_skills # <<>>)
            /\ \A a \in 1..Len(recs) :
                  recs[a].kind = "skills" =>
                    /\ Len(recs[a].skills) = Min(5, given)
                    /\ \A j \in 1..Len(detail) :
                          \A i \in 1..Min(3, Len(detail[j].missing_skills)) :
                              GivenBefore(detail, j) + i <= 5 =>
                                  recs[a].skills[GivenBefore(detail, j) + i]
                                      = detail[j].missing_skills[i]

C18_Witness ==
    /\ rec_call.done
    /\ Len(rec_call.skill_breakdown) = 2
    /\ \A j \in 1..2 : Len(rec_call.skill_breakdown[j].missing_skills) = 4
    /\ rec_call.experience_gap > 0
    /\ rec_call.education_gap > 0
    /\ Len(rec_call.value) = 3
    /\ Len(rec_call.value[1].skills) = 5

\* a is b without some of its elements, the others in the order of b
RECURSIVE IsSubList(_, _)
IsSubList(a, b) ==
    IF a = <<>> THEN TRUE
    ELSE IF b = <<>> THEN FALSE
    ELSE IF Head(a) = Head(b) THEN IsSubList(Tail(a), Tail(b))
    ELSE IsSubList(a, Tail(b))

\* C19: the mapping extract_dynamic_skills returns has a sector at most once
\* and only with a list that is not empty; the list is a sub-list of the
\* phrases the searched taxonomy has for the sector, in their order, and each
\* of its phrases occurs in the text; the empty text gives the empty mapping.
C19_FoundSkillsOfTaxonomy ==
    probe_last.called =>
        LET found == probe_last.value
            taxonomy == IF probe.ref # <<>> THEN probe.ref ELSE universal_skills
        IN  /\ \A k \in 1..Len(found) :
                  /\ found[k].skills # <<>>
                  /\ found[k].category \in Categories(taxonomy)
                  /\ IsSubList(found[k].skills, Get(taxonomy, found[k].category))
                  /\ \A x \in Range(found[k].skills) :
                        \E i \in 1..Len(probe.text) :
                            \/ probe.text[i].w = x
                            \/ <<probe.text[i].w, x>> \in Substrings
                  /\ \A j \in 1..Len(found) :
                        found[j].category = found[k].category => j = k
            /\ probe.text = <<>> => found = <<>>

C19_Witness ==
    /\ probe_last.called
    /\ probe.text # <<>>
    /\ probe_last.value # <<>>
    /\ Len(probe_last.value) < Len(universal_skills)
    /\ \E k \in 1..Len(probe_last.value) :
          /\ Len(probe_last.value[k].skills) >= 2
          /\ Len(probe_last.value[k].skills)
                < Len(Get(universal_skills, probe_last.value[k].category))

\* C20: GET /api/download/<file_type> answers 400 for every file_type other
\* than 'json' and 'csv', whether or not an analysis has exported its files,
\* and 404 for 'json' and 'csv' as long as the export file does not exist.
C20_DownloadStatus ==
    download # NoDownload =>
        /\ download.file_type \notin {"json", "csv"} => download.status = 400
        /\ (download.file_type = "json" /\ JsonFile \notin files)
              => download.status = 404
        /\ (download.file_type = "csv" /\ CsvFile \notin files)
              => download.status = 404

C20_Witness ==
    /\ download.file_type = "invalid"
    /\ download.status = 400
    /\ files = {JsonFile, CsvFile}
    /\ api_response.success

\* the shift of a weight: tenths of a weight are Rat(1, 10)
ShiftOf(k, skill_heavy, experience_heavy) ==
    LET by_skills == CASE k = "skills" -> Rat(10, 100)
                       [] k \in {"text", "experience"} -> Rat(-5, 100)
                       [] OTHER -> Zero
        by_years == CASE k = "experience" -> Rat(10, 100)
                      [] k \in {"text", "education"} -> Rat(-5, 100)
                      [] OTHER -> Zero
    IN  RAdd(IF skill_heavy THEN by_skills ELSE Zero,
             IF experience_heavy THEN by_years ELSE Zero)

\* C21: the weights of a run are the configured weights, shifted by +0.10
\* for skills and -0.05 for text and experience when the job asks for more
\* than 15 skills (not for 15), by +0.10 for experience and -0.05 for
\* education and text when it asks for more than 7 years (not for 7), by both
\* when both hold, and divided by the total of the configured weights; with
\* the default configuration the four weights are positive in every branch.
C21_StrictShifts ==
    Computed =>
        LET base == [text |-> config.text_weight,
                     skills |-> config.skill_weight,
                     experience |-> config.experience_weight,
                     education |-> config.education_weight]
            skill_heavy == SumLen(job_analysis.skills_required) >= 16
            experience_heavy == job_analysis.experience_required >= 8
        IN  /\ \A k \in DOMAIN weights :
                  RMul(weights[k], SumWeights(base))
                    = RAdd(base[k], ShiftOf(k, skill_heavy, experience_heavy))
            /\ config = DefaultConfig =>
                  \A k \in DOMAIN weights : RLt(Zero, weights[k])

C21_Witness ==
    /\ Computed
    /\ config = DefaultConfig
    /\ SumLen(job_analysis.skills_required) = 15
    /\ job_analysis.experience_required = 7
    /\ weights = [text |-> Rat(30, 100), skills |-> Rat(35, 100),
                  experience |-> Rat(20, 100), education |-> Rat(15, 100)]

\* C22: in every result of a run the text similarity, the skill score, the
\* experience score and the education score lie in [0,1], and the match
\* percentage is the combined score times 100.
C22_ComponentsInUnit ==
    \A k \in 1..Len(results) :
        /\ InUnit(results[k].text_similarity)
        /\ InUnit(results[k].skill_score)
        /\ InUnit(results[k].experience_score)
        /\ InUnit(results[k].education_score)
        /\ results[k].match_percentage
              = RMul(results[k].combined_score, Rat(100, 1))

\* C23: the education score of a result is min(level / max(required, 3), 1)
\* for the levels 1..5 on either side: below 1 for a resume of a level below
\* 3 whatever the job requires, and 1 for a resume at or above
\* max(required, 3).
C23_EducationScore ==
    \A k \in 1..Len(results) :
        LET level == results[k].education_level
            required == job_analysis.education_required
            floor == IF required > 3 THEN required ELSE 3
        IN  /\ level \in 1..5 /\ required \in 1..5
            /\ results[k].education_score
                  = (IF level >= floor THEN One ELSE Rat(level, floor))
            /\ level < 3 => RLt(results[k].education_score, One)
            /\ level >= floor => results[k].education_score = One

C23_Witness ==
    \E k \in 1..Len(results) :
        /\ results[k].education_level = 2
        /\ job_analysis.education_required = 1
        /\ results[k].education_score = Rat(2, 3)

Analyzed == pc \in {"parse", "returned"}

\* how many phrases of a sector occur in the job description
PhrasesIn(sector) ==
    Cardinality({x \in Range(Get(universal_skills, sector)) :
        \E i \in 1..Len(job_description) :
            \/ job_description[i].w = x
            \/ <<job_description[i].w, x>> \in Substrings})

\* the place of a sector in the taxonomy
PlaceOf(sector) ==
    CHOOSE k \in 1..Len(universal_skills) : universal_skills[k].category = sector

\* C24: the sector detected for a job description is never SOFT-SKILLS; it
\* is GENERAL iff no other sector has a phrase in the text; otherwise it is
\* a sector with the highest count of phrases in the text, and the first of
\* them in the order of the taxonomy.
C24_SectorDetected ==
    Analyzed =>
        LET detected == job_analysis.sector_detected
            Sectors == Categories(universal_skills) \ {"SOFT-SKILLS"}
        IN  /\ detected # "SOFT-SKILLS"
            /\ detected = "GENERAL" <=> \A c \in Sectors : PhrasesIn(c) = 0
            /\ detected # "GENERAL" =>
                  /\ detected \in Sectors
                  /\ \A c \in Sectors :
                        /\ PhrasesIn(c) <= PhrasesIn(detected)
                        /\ PlaceOf(c) < PlaceOf(detected)
                              => PhrasesIn(c) < PhrasesIn(detected)

C24_Witness ==
    /\ Analyzed
    /\ job_description = <<W("ppc"), W("teamwork"), W("strategic planning")>>
    /\ job_analysis.sector_detected = "BUSINESS-DEVELOPMENT"

\* C25: the complexity score of the analysis of a job description is
\* min((0.4 * skills + 0.4 * years + 0.2 * education level) / 20, 1) of what
\* the extractors found, and lies in [0,1].
C25_ComplexityInUnit ==
    Analyzed =>
        /\ job_analysis.complexity_score
              = RMin(Rat(4 * SumLen(job_analysis.skills_required)
                            + 4 * job_analysis.experience_required
                            + 2 * job_analysis.education_required, 200), One)
        /\ InUnit(job_analysis.complexity_score)

\* the texts of the batch's resumes that parse, in batch order
ParsedTexts ==
    LET parsed == SelectSeq(resumes_data, LAMBDA r : ~r.text_is_none)
    IN  [k \in 1..Len(parsed) |-> parsed[k].text]

\* C26 as stated: every run of rank_resumes that returns has fitted the
\* vectorizer exactly once.
C26_FittedExactlyOnce ==
    pc = "returned" => Len(fitted) = 1

\* C26: a run of rank_resumes fits the vectorizer at most once: once when a
\* resume of the batch was parsed, never when none was (the run returns the
\* empty list before). The fit comes after every resume of the batch was
\* parsed or dropped and before any score: its corpus is the job description
\* followed by the texts of exactly the parsed resumes in batch order, and
\* weights and results exist only after it.
C26_FitAfterParsing ==
    /\ Len(fitted) <= 1
    /\ fitted # <<>> =>
          /\ pc \notin {"analyze", "parse"}
          /\ fitted[1] = <<job_description>> \o ParsedTexts
    /\ (pc \in {"weights", "score", "sort"} \/ results # <<>>) =>
          Len(fitted) = 1
    /\ pc \in {"analyze", "parse", "similarity"} =>
          fitted = <<>> /\ results = <<>>
    /\ pc = "returned" =>
          Len(fitted) = IF ParsedTexts = <<>> THEN 0 ELSE 1

C26_Witness ==
    /\ pc = "returned"
    /\ Len(resumes_data) = 2
    /\ resumes_data[1].text_is_none
    /\ Len(fitted) = 1
    /\ Len(fitted[1]) = 2
    /\ Len(results) = 1

StatementsOf(recommendations, kind) ==
    SelectSeq(recommendations, LAMBDA st : st.kind = kind)

\* C27: every result of the run has the experience statement among its
\* recommendations exactly when the resume's years are below the years the job
\* requires, the statement names the difference of the two, and it has the
\* education statement exactly when the resume's education level is below the
\* level the job requires: the gaps are max(0, required - actual).
C27_GapStatements ==
    \A k \in 1..Len(results) :
        LET r == results[k]
            experience == StatementsOf(r.recommendations, "experience")
            education == StatementsOf(r.recommendations, "education")
        IN  /\ Len(experience) =
                  IF r.experience_years < job_analysis.experience_required
                  THEN 1 ELSE 0
            /\ \A n \in 1..Len(experience) :
                  experience[n].years = job_analysis.experience_required
                                            - r.experience_years
            /\ Len(education) =
                  IF r.education_level < job_analysis.education_required
                  THEN 1 ELSE 0

C27_Witness ==
    /\ Len(results) = 1
    /\ job_analysis.experience_required = 5
    /\ results[1].experience_years = 2
    /\ results[1].education_level < job_analysis.education_required
    /\ StatementsOf(results[1].recommendations, "experience")
          = <<Statement("experience", <<>>, 3)>>
    /\ Len(StatementsOf(results[1].recommendations, "education")) = 1

\* a configuration completed with the defaults, option by option
config_merged(passed) ==
    [o \in DOMAIN DefaultConfig |->
        IF passed.given /\ o \in DOMAIN passed.options
        THEN passed.options[o] ELSE DefaultConfig[o]]

\* C28: constructing the ranker with a configuration that sets some of the
\* options raises nothing, the ranker's configuration has every option, each
\* set option at its passed value and each omitted option at its default, and
\* the ranker reads its weights without raising.
C28_PartialConfigDefaults ==
    init_call.done =>
        /\ ~init_call.raised
        /\ init_call.config = config_merged(init_call.passed)
        /\ ~init_call.weights_raised

RECURSIVE SumMatched(_)
SumMatched(skill_breakdown) ==
    IF skill_breakdown = <<>> THEN 0
    ELSE Head(skill_breakdown).matched + SumMatched(Tail(skill_breakdown))

\* C29: for job skills of at least one phrase, calculate_advanced_skill_match
\* returns a breakdown whose keys are exactly the job's categories; in each
\* category the matched and the missing skills are disjoint, together they are
\* the phrases the job requires there, the matched skills are those the resume
\* has in that category, matched + the number of missing skills = required,
\* and the score is the sum of matched over the sum of required, within [0,1].
C29_GapDetail ==
    (match_call.done /\ SumLen(match_call.job_skills) > 0) =>
        LET job_skills == match_call.job_skills
            resume_skills == match_call.resume_skills
            detail == match_call.skill_breakdown
        IN  /\ ~match_call.raised
            /\ Len(detail) = Len(job_skills)
            /\ \A k \in 1..Len(detail) :
                  LET b == detail[k]
                      required == Range(job_skills[k].skills)
                      has == IF b.category \in Categories(resume_skills)
                             THEN Range(Get(resume_skills, b.category))
                             ELSE {}
                  IN  /\ b.category = job_skills[k].category
                      /\ Range(b.matched_skills) \cap Range(b.missing_skills) = {}
                      /\ Range(b.matched_skills) \cup Range(b.missing_skills)
                            = required
                      /\ Range(b.matched_skills) = required \cap has
                      /\ b.required = Len(job_skills[k].skills)
                      /\ b.matched = Len(b.matched_skills)
                      /\ b.matched + Len(b.missing_skills) = b.required
            /\ match_call.score = Rat(SumMatched(detail), SumLen(job_skills))
            /\ InUnit(match_call.score)

C29_Witness ==
    /\ match_call.done
    /\ Len(match_call.skill_breakdown) = 3
    /\ \E k \in 1..3 : LET b == match_call.skill_breakdown[k]
                       IN  b.matched = 1 /\ Len(b.missing_skills) = 1
    /\ \E k \in 1..3 : LET b == match_call.skill_breakdown[k]
                       IN  /\ b.category \notin Categories(match_call.resume_skills)
                           /\ b.missing_skills # <<>>
    /\ Categories(match_call.resume_skills)
          \ Categories(match_call.job_skills) # {}
    /\ match_call.score = Rat(1, 4)

\* the phrase occurs in the text, by itself or inside a longer phrase
OccursIn(phrase, text) ==
    \E i \in 1..Len(text) :
        text[i].w = phrase \/ <<text[i].w, phrase>> \in Substrings

TextOf(filename) ==
    (CHOOSE r \in Range(resumes_data) : r.filename = filename).text

\* C30: in a run whose job asks for at least one skill, the skills found of
\* every result are among the job's: each of their sectors is a sector of the
\* job's skills and each of their phrases is required by the job in that
\* sector, whatever else of the taxonomy the resume mentions. In a run whose
\* job asks for no skill, the skills found are the taxonomy's: every phrase of
\* the taxonomy that occurs in the resume is found in its sector.
C30_SkillsAmongRequired ==
    \A k \in 1..Len(results) :
        LET found == results[k].skills_found
            required == job_analysis.skills_required
            text == TextOf(results[k].filename)
        IN  IF SumLen(required) > 0
            THEN \A j \in 1..Len(found) :
                    /\ found[j].category \in Categories(required)
                    /\ Range(found[j].skills)
                          \subseteq Range(Get(required, found[j].category))
            ELSE \A c \in 1..Len(universal_skills) :
                    \A phrase \in Range(universal_skills[c].skills) :
                        OccursIn(phrase, text) =>
                            /\ universal_skills[c].category \in Categories(found)
                            /\ phrase \in Range(Get(found,
                                                universal_skills[c].category))

C30_Witness ==
    /\ Len(results) = 1
    /\ SumLen(job_analysis.skills_required) = 15
    /\ OccursIn("ppc", TextOf(results[1].filename))
    /\ results[1].skills_found # <<>>
    /\ \A j \in 1..Len(results[1].skills_found) :
          "ppc" \notin Range(results[1].skills_found[j].skills)

C30_WitnessTaxonomy ==
    /\ Len(results) = 1
    /\ job_analysis.skills_required = <<>>
    /\ OccursIn("ppc", TextOf(results[1].filename))
    /\ \E j \in 1..Len(results[1].skills_found) :
          "ppc" \in Range(results[1].skills_found[j].skills)

=============================================================================
